---- MODULE Spec2Model ----
(***************************************************************************)
(* Logic analyzer instrument of the PSLab firmware                         *)
(* (src/src/instruments/logic_analyzer.c) as a state machine.              *)
(*                                                                         *)
(* Execution model: one core.  The main (command handling) context runs    *)
(* the LA_* request handlers one shared-memory access or peripheral call   *)
(* at a time.  An interrupt service routine may start between any two      *)
(* main-context steps, runs to completion without being interrupted by     *)
(* another routine, and only then does the main context continue.  The     *)
(* pins are driven by the environment at any time.                         *)
(***************************************************************************)
EXTENDS Integers, Sequences, FiniteSets, TLC

(***************************************************************************)
(* Program constants                                                       *)
(***************************************************************************)
CHANNEL_NUMEL == 4
CHANNEL_NONE == -1
EDGE_NONE == -1
EDGE_ANY == 0
EDGE_FALLING == 1
EDGE_RISING == 2
BUFFER_SIZE == 10000
IC_TIMER_TMR5 == 3
UINT8_MOD == 256
UINT16_MOD == 65536
PR_DEFAULT == 65535
NULL == -1

Channels == 0 .. (CHANNEL_NUMEL - 1)

(***************************************************************************)
(* Bounds of the model                                                     *)
(***************************************************************************)
\* Largest num_channels of an accepted request in the interleaving model.
MaxNum == 2
\* Largest events-per-channel of a request in the interleaving model.
MaxEvents == 2
\* PINS_get_la_states() returns a value in 0 .. MaxPinState.
MaxPinState == 1
\* Distance around each boundary of the size check that is enumerated.
Slack == 1
\* Largest number of captured events per channel in the timestamp model.
MaxTs == 3
\* Largest trigger timeout of the oscilloscope, in samples.
MaxTimeout == 2
\* Samples of the converter are in 0 .. MaxSample.
MaxSample == 2
\* Largest number of trigger evaluations followed after arming.
MaxEvals == 4

VARIABLES
    g_state,    \* struct LogicAnalyzerState g_state
    ic,         \* input capture (edge detector) channels IC1-4
    dma,        \* DMA channels DMA0-3
    tmr,        \* TMR5, the shared capture clock
    cn,         \* input change notification
    main,       \* main context: position, locals and last response
    isr,        \* interrupt context: running routine and its locals
    hist,       \* per-session observations
    inp,        \* the capture requests the host may send
    BUFFER,     \* the words of the sample buffer that differ from 0
    osc_state,  \* struct OscilloscopeState g_state of oscilloscope.c
    g_trigger_state,    \* struct TriggerState g_trigger_state
    adc,        \* the analog converter
    ohist,      \* observations since the oscilloscope trigger was armed
    oinp        \* the arguments the host passes to the oscilloscope

oscvars == <<osc_state, g_trigger_state, adc, ohist, oinp>>
vars == <<g_state, ic, dma, tmr, cn, main, isr, hist, inp, BUFFER, oscvars>>
shared == <<g_state, ic, dma, tmr, cn>>

(***************************************************************************)
(* Peripheral capability layer                                             *)
(***************************************************************************)
IC_DEFAULT == [mode |-> EDGE_NONE, ie |-> FALSE, timer |-> 0]
DMA_DEFAULT ==
    [en |-> FALSE, ie |-> FALSE, count |-> 0, cnt |-> 0, ifg |-> FALSE,
     addr |-> NULL]
TMR_DEFAULT == [on |-> FALSE, period |-> PR_DEFAULT, prescaler |-> 0]
CN_DEFAULT == [ie |-> FALSE, ch |-> CHANNEL_NONE]

\* Apply f to entry i of the peripheral table p; other entries are kept.
Upd(p, i, r) == [c \in Channels |-> IF c = i THEN r ELSE p[c]]

IC_reset(p, i) == Upd(p, i, IC_DEFAULT)
IC_setup(p, i, timer) == Upd(p, i, [p[i] EXCEPT !.timer = timer])
IC_start(p, i, edge) == Upd(p, i, [p[i] EXCEPT !.mode = edge])
IC_interrupt_enable(p, i) == Upd(p, i, [p[i] EXCEPT !.ie = TRUE])
\* Mutation: the interrupt stays enabled.
IC_interrupt_disable_Nop(p, i) == p

IC_interrupt_disable(p, i) ==
    IF i \in Channels THEN Upd(p, i, [p[i] EXCEPT !.ie = FALSE]) ELSE p

DMA_reset(p, i) == Upd(p, i, DMA_DEFAULT)
\* Mutation: setting a channel up also starts it.
DMA_setup_Starts(p, i, count, address) ==
    Upd(p, i, [p[i] EXCEPT !.count = count, !.addr = address, !.en = TRUE])

DMA_setup(p, i, count, address) ==
    Upd(p, i, [p[i] EXCEPT !.count = count, !.addr = address])
DMA_start(p, i) == Upd(p, i, [p[i] EXCEPT !.en = TRUE])
DMA_interrupt_enable(p, i) == Upd(p, i, [p[i] EXCEPT !.ie = TRUE])
DMA_get_progress(p, i) == p[i].cnt

timer2ictsel == IC_TIMER_TMR5

(***************************************************************************)
(* Initial state                                                           *)
(***************************************************************************)
g_STATE_DEFAULT ==
    [locked |-> FALSE,
     configured_channels |-> 0,
     active_channels |-> 0,
     capture_edge |-> EDGE_NONE,
     trigger_edge |-> EDGE_NONE,
     initial_states |-> 0,
     events_per_channel |-> 0,
     initial_addresses |-> [c \in Channels |-> NULL],
     final_progress |-> [c \in Channels |-> 0]]

NoArgs ==
    [num_channels |-> 0, events |-> 0, edge |-> EDGE_NONE,
     trigger_pin |-> CHANNEL_NONE, trigger_edge |-> EDGE_NONE]
NoTrig == [pc |-> "none", channel |-> CHANNEL_NONE, capture_edge |-> EDGE_NONE, k |-> 0]
NoOut ==
    [channels |-> 0, done |-> FALSE, progress |-> <<>>, states |-> 0,
     events |-> <<>>, deltas |-> <<>>]

MainIdle ==
    [pc |-> "idle", op |-> "none", did |-> FALSE, result |-> "NONE",
     touched |-> FALSE, args |-> NoArgs, i |-> 0, j |-> 0, previous |-> 0,
     t |-> NoTrig, out |-> NoOut]
IsrIdle == [active |-> FALSE, t |-> NoTrig]
HistInit ==
    [completed |-> {}, immediate |-> FALSE, stopped |-> FALSE, fires |-> 0,
     armed |-> FALSE, done_at_stop |-> {}]

\* One more invocation of trigger() in the session; counted up to 2.
Fired(h) == [h EXCEPT !.fires = IF @ < 2 THEN @ + 1 ELSE @]

\* Capture requests
Request(n, events, edge, trigger_pin, trigger_edge) ==
    [num_channels |-> n, events |-> events, edge |-> edge,
     trigger_pin |-> trigger_pin, trigger_edge |-> trigger_edge]

\* Accepted requests of the interleaving model: several channels of one
\* event each or one channel of several events, as an immediate capture or
\* with a trigger on a configured or an unconfigured pin, on any edge or a
\* rising one.
ValidRequests ==
    {r \in {Request(n, e, EDGE_RISING, tp, te) :
                n \in 1 .. MaxNum, e \in 1 .. MaxEvents,
                tp \in {CHANNEL_NONE, 0, CHANNEL_NUMEL - 1},
                te \in {EDGE_NONE, EDGE_ANY, EDGE_RISING}} :
        /\ (r.trigger_pin = CHANNEL_NONE) <=> (r.trigger_edge = EDGE_NONE)
        /\ r.num_channels = 1 \/ r.events = 1}

\* Rejected requests of the interleaving model.
InvalidRequests ==
    {Request(0, 1, EDGE_RISING, CHANNEL_NONE, EDGE_NONE),
     Request(CHANNEL_NUMEL + 1, 1, EDGE_RISING, CHANNEL_NONE, EDGE_NONE),
     Request(1, 1, EDGE_NONE, CHANNEL_NONE, EDGE_NONE)}

\* Values of events around the boundaries of the size check: where the
\* product with n reaches BUFFER_SIZE, and where it reaches 2^16.
BoundaryEvents ==
    {0, 1, UINT16_MOD - 1}
    \cup {(BUFFER_SIZE \div n) + d : n \in 1 .. CHANNEL_NUMEL, d \in 0 .. Slack}
    \cup {((UINT16_MOD + n - 1) \div n) + d - 1 :
            n \in 2 .. CHANNEL_NUMEL, d \in 0 .. Slack}

\* Requests of the argument-validation model.
WideRequests ==
    {Request(n, e, edge, tp, te) :
        n \in (0 .. CHANNEL_NUMEL + 1) \cup {UINT8_MOD - 1},
        e \in BoundaryEvents,
        edge \in {EDGE_NONE, EDGE_ANY, EDGE_FALLING, EDGE_RISING},
        tp \in {CHANNEL_NONE, 0, CHANNEL_NUMEL - 1},
        te \in {EDGE_NONE, EDGE_ANY, EDGE_FALLING, EDGE_RISING}}

\* Oscilloscope: the statics of oscilloscope.c are zero-initialised and the
\* converter is off.
OSC_STATE_DEFAULT ==
    [num_channels |-> 0, ch0map |-> 0, resolution |-> 0,
     gains |-> [c \in Channels |-> 0]]
TRIGGER_STATE_DEFAULT ==
    [channel |-> 0, level |-> 0, waiting |-> 0, timeout |-> 0,
     ready |-> FALSE, polarity |-> FALSE]
ADC_DEFAULT ==
    [on |-> FALSE, ie |-> FALSE, channels |-> 0, bits |-> 10,
     buf |-> [c \in Channels |-> 0]]
OHistInit ==
    [armed |-> FALSE, dir |-> EDGE_NONE, prearm |-> FALSE, sides |-> <<>>,
     fired_at |-> 0]

NoOscArgs == [setup |-> {}, arm |-> {}]

OscIdle ==
    /\ osc_state = OSC_STATE_DEFAULT
    /\ g_trigger_state = TRIGGER_STATE_DEFAULT
    /\ adc = ADC_DEFAULT
    /\ ohist = OHistInit

\* The oscilloscope is not used.
OscInit ==
    /\ oinp = NoOscArgs
    /\ OscIdle

InitCommon ==
    /\ g_state = g_STATE_DEFAULT
    /\ ic = [c \in Channels |-> IC_DEFAULT]
    /\ dma = [c \in Channels |-> DMA_DEFAULT]
    /\ tmr = TMR_DEFAULT
    /\ cn = CN_DEFAULT
    /\ main = MainIdle
    /\ isr = IsrIdle
    /\ hist = HistInit
    /\ OscInit

\* The sample buffer with every word 0.
BufferClear == <<>>

\* Interleaving model: the host repeats one accepted request, and may send
\* the rejected ones at any time.
Init ==
    /\ InitCommon
    /\ BUFFER = BufferClear
    /\ \E r \in ValidRequests : inp = {r} \cup InvalidRequests

\* Argument-validation model: the host repeats one request.
InitArgs ==
    /\ InitCommon
    /\ BUFFER = BufferClear
    /\ \E r \in WideRequests : inp = {r}

\* Words left in the sample buffer by an earlier use: only the low byte,
\* only the high byte, or both bytes set.
DirtyValues == {1, UINT8_MOD, UINT8_MOD + 1}

\* The words of every sub-region a request of the buffer model can name.
DirtyCells ==
    UNION {{(c * BUFFER_SIZE) \div n + j :
                c \in 0 .. (n - 1), j \in 0 .. MaxEvents} : n \in 1 .. MaxNum}

\* Requests of the buffer model: accepted, with an immediate trigger.
BufferRequests ==
    {Request(n, e, EDGE_RISING, CHANNEL_NONE, EDGE_NONE) :
        n \in 1 .. MaxNum, e \in 1 .. MaxEvents}

\* Buffer model: the sample buffer holds data of an earlier use and the
\* host repeats one accepted request.
InitBuf ==
    /\ InitCommon
    /\ \E v \in DirtyValues : BUFFER = [a \in DirtyCells |-> v]
    /\ \E r \in BufferRequests : inp = {r}

\* Raw 16-bit clock values a channel may have captured.
RawValues == {0, 100, 150, 400, UINT16_MOD - 1}

RawSequences == UNION {[1 .. l -> RawValues] : l \in 1 .. MaxTs}

Reverse(s) == [k \in 1 .. Len(s) |-> s[Len(s) + 1 - k]]

\* The words DMA channel c has moved to its sub-region: s on the even
\* channels and s in reverse order on the odd ones.
ChannelData(s, c) == IF c % 2 = 0 THEN s ELSE Reverse(s)

\* The instrument state after a capture of n channels has completed with
\* Len(s) events on each channel and pin states p at the trigger.
Captured(n, s, p) ==
    [g_STATE_DEFAULT EXCEPT
        !.configured_channels = n,
        !.capture_edge = EDGE_RISING,
        !.initial_states = p,
        !.events_per_channel = Len(s),
        !.initial_addresses =
            [c \in Channels |-> IF c < n THEN (c * BUFFER_SIZE) \div n ELSE NULL],
        !.final_progress = [c \in Channels |-> IF c < n THEN Len(s) ELSE 0]]

\* The sample buffer after that capture.
BufferOf(n, s) ==
    LET cells == {<<c, j>> : c \in 0 .. (n - 1), j \in 0 .. (Len(s) - 1)}
        at(x) == ((x[1] * BUFFER_SIZE) \div n) + x[2]
    IN [a \in {at(x) : x \in cells} |->
          LET x == CHOOSE y \in cells : at(y) = a
          IN ChannelData(s, x[1])[x[2] + 1]]

\* Timestamp model: a capture has completed and the host reads it out.
InitTs ==
    /\ \E n \in 1 .. MaxNum, s \in RawSequences, p \in 0 .. MaxPinState :
         /\ g_state = Captured(n, s, p)
         /\ BUFFER = BufferOf(n, s)
    /\ ic = [c \in Channels |-> IC_DEFAULT]
    /\ dma = [c \in Channels |-> DMA_DEFAULT]
    /\ tmr = TMR_DEFAULT
    /\ cn = CN_DEFAULT
    /\ main = MainIdle
    /\ isr = IsrIdle
    /\ hist = HistInit
    /\ inp = {}
    /\ OscInit

(***************************************************************************)
(* trigger(): the fire sequence.  t holds the locals of one invocation;    *)
(* the same steps run in the main context (immediate trigger) and in the   *)
(* interrupt context (IC or CN interrupt).                                 *)
(***************************************************************************)
TrigStart(channel) ==
    [pc |-> "t_edge", channel |-> channel, capture_edge |-> EDGE_NONE, k |-> 0]

\* Position after DMA(k-1) of the fall-through switch has been started.
AfterDmaStart(k) == IF k - 1 >= 1 THEN "t_ic" ELSE "t_tmr"

\* The locals after the step at t.pc.
TrigNext(t) ==
    CASE t.pc = "t_edge" ->
            [t EXCEPT !.pc = "t_switch", !.capture_edge = g_state.capture_edge]
      [] t.pc = "t_switch" ->
            [t EXCEPT !.k = g_state.configured_channels,
                      !.pc = IF g_state.configured_channels \in 1 .. CHANNEL_NUMEL
                             THEN "t_ic" ELSE "t_tmr"]
      [] t.pc = "t_ic" -> [t EXCEPT !.pc = "t_dma"]
      [] t.pc = "t_dma" -> [t EXCEPT !.k = t.k - 1, !.pc = AfterDmaStart(t.k)]
      [] t.pc = "t_tmr" -> [t EXCEPT !.pc = "t_pins"]
      [] t.pc = "t_pins" -> [t EXCEPT !.pc = "t_active"]
      [] t.pc = "t_active" -> [t EXCEPT !.pc = "t_period"]
      [] t.pc = "t_period" -> [t EXCEPT !.pc = "t_disable"]
      [] t.pc = "t_disable" -> NoTrig

\* The effect of the step at t.pc on the instrument state and peripherals.
TrigStep(t) ==
    \/ /\ t.pc \in {"t_edge", "t_switch"}
       /\ UNCHANGED shared
    \/ /\ t.pc = "t_ic"
       /\ ic' = IC_start(ic, t.k - 1, t.capture_edge)
       /\ UNCHANGED <<g_state, dma, tmr, cn>>
    \/ /\ t.pc = "t_dma"
       /\ dma' = DMA_start(dma, t.k - 1)
       /\ UNCHANGED <<g_state, ic, tmr, cn>>
    \/ /\ t.pc = "t_tmr"
       /\ tmr' = [tmr EXCEPT !.on = TRUE]
       /\ UNCHANGED <<g_state, ic, dma, cn>>
    \/ /\ t.pc = "t_pins"
       /\ \E p \in 0 .. MaxPinState :
            g_state' = [g_state EXCEPT !.initial_states = p]
       /\ UNCHANGED <<ic, dma, tmr, cn>>
    \/ /\ t.pc = "t_active"
       /\ g_state' = [g_state EXCEPT !.active_channels = g_state.configured_channels]
       /\ UNCHANGED <<ic, dma, tmr, cn>>
    \/ /\ t.pc = "t_period"
       /\ tmr' = [tmr EXCEPT !.period = 0]
       /\ UNCHANGED <<g_state, ic, dma, cn>>
    \/ /\ t.pc = "t_disable"
       /\ IF g_state.trigger_edge \in {EDGE_RISING, EDGE_FALLING}
          THEN ic' = IC_interrupt_disable(ic, t.channel) /\ cn' = cn
          ELSE IF g_state.trigger_edge = EDGE_ANY
               THEN cn' = CN_DEFAULT /\ ic' = ic
               ELSE ic' = ic /\ cn' = cn
       /\ UNCHANGED <<g_state, dma, tmr>>

(***************************************************************************)
(* Main context                                                            *)
(***************************************************************************)
\* The handler returns its response to the command dispatcher.
Return(op, did, result, touched) ==
    [MainIdle EXCEPT !.pc = "ret", !.op = op, !.did = did, !.result = result,
                     !.touched = touched]

MainRuns == ~isr.active

\* events * num_channels as computed in the 16-bit unsigned arithmetic of
\* the target.
SizeProduct(events, num_channels) == (events * num_channels) % UINT16_MOD

\* Mutation: the admission check is missing.
CaptureRejectsBusy_Never == FALSE

CaptureRejectsBusy == g_state.locked

\* Mutation: the null capture edge is not checked.
CaptureArgumentError_NoEdge(r) ==
    \/ r.num_channels = 0
    \/ r.num_channels > CHANNEL_NUMEL
    \/ SizeProduct(r.events, r.num_channels) > BUFFER_SIZE

\* Mutation: the channel count is compared with >= instead of >.
CaptureArgumentError_Ge(r) ==
    \/ r.num_channels = 0
    \/ r.num_channels >= CHANNEL_NUMEL
    \/ SizeProduct(r.events, r.num_channels) > BUFFER_SIZE
    \/ r.edge = EDGE_NONE

CaptureArgumentError(r) ==
    \/ r.num_channels = 0
    \/ r.num_channels > CHANNEL_NUMEL
    \/ SizeProduct(r.events, r.num_channels) > BUFFER_SIZE
    \/ r.edge = EDGE_NONE

\* LA_capture up to the call of setup().
LA_capture(r) ==
    /\ main.pc = "idle"
    /\ MainRuns
    /\ main' = IF CaptureRejectsBusy
               THEN Return("capture", FALSE, "FAILED", FALSE)
               ELSE IF CaptureArgumentError(r)
                    THEN Return("capture", FALSE, "ARGUMENT_ERROR", FALSE)
                    ELSE [MainIdle EXCEPT !.op = "capture", !.did = TRUE,
                                          !.pc = "s_lock", !.args = r]
    /\ UNCHANGED <<shared, isr, hist, inp, BUFFER, oscvars>>

\* Mutation: the null trigger edge is not checked.
ArmImmediate_ChannelOnly(channel, edge) == channel = CHANNEL_NONE

\* Whether arm() fires the trigger itself instead of arming an interrupt.
ArmImmediate(channel, edge) == channel = CHANNEL_NONE \/ edge = EDGE_NONE

\* Base of channel i's sub-region, as a word offset into BUFFER.
Address(i, num_channels) == (i * BUFFER_SIZE) \div num_channels

\* BUFFER_set(): memset(start, val, size) writes the byte val to the first
\* size bytes from word start on; a word is two bytes, the low byte first.
\* The result keeps the words that differ from 0.
BUFFER_set(B, start, val, size) ==
    LET byte == val % UINT8_MOD
        old(a) == IF a \in DOMAIN B THEN B[a] ELSE 0
        written == start .. (start + ((size + 1) \div 2) - 1)
        new(a) == IF a \notin written THEN old(a)
                  ELSE IF 2 * (a - start) + 1 < size
                       THEN byte * UINT8_MOD + byte
                       ELSE (old(a) \div UINT8_MOD) * UINT8_MOD + byte
        \* a word that was 0 stays 0 when the byte written is 0
        changed == IF byte = 0 THEN DOMAIN B ELSE DOMAIN B \cup written
        nonzero == {a \in changed : new(a) # 0}
    IN IF nonzero = {} THEN BufferClear ELSE [a \in nonzero |-> new(a)]

\* Position after the body of the setup() loop has run for channel i.
AfterSetupLoop(i, num_channels) ==
    IF i + 1 < num_channels THEN "s_ic_reset" ELSE "a_period"

\* setup(): one step per assignment or peripheral call; the sample buffer
\* is cleared in the step that stores the channel's address.
Setup ==
    /\ MainRuns
    /\ LET a == main.args
           i == main.i
       IN \/ /\ main.pc = "s_lock"
             /\ g_state' = [g_state EXCEPT !.locked = TRUE]
             /\ hist' = [HistInit EXCEPT
                           !.immediate = ArmImmediate(a.trigger_pin, a.trigger_edge)]
             /\ main' = [main EXCEPT !.pc = "s_cfg"]
             /\ UNCHANGED <<ic, dma, tmr, cn>>
          \/ /\ main.pc = "s_cfg"
             /\ g_state' = [g_state EXCEPT !.configured_channels = a.num_channels]
             /\ main' = [main EXCEPT !.pc = "s_edge"]
             /\ UNCHANGED <<ic, dma, tmr, cn, hist>>
          \/ /\ main.pc = "s_edge"
             /\ g_state' = [g_state EXCEPT !.capture_edge = a.edge]
             /\ main' = [main EXCEPT !.pc = "s_events"]
             /\ UNCHANGED <<ic, dma, tmr, cn, hist>>
          \/ /\ main.pc = "s_events"
             /\ g_state' = [g_state EXCEPT !.events_per_channel = a.events]
             /\ main' = [main EXCEPT !.pc = "s_ic_reset", !.i = 0]
             /\ UNCHANGED <<ic, dma, tmr, cn, hist>>
          \/ /\ main.pc = "s_ic_reset"
             /\ ic' = IC_reset(ic, i)
             /\ main' = [main EXCEPT !.pc = "s_dma_reset", !.touched = TRUE]
             /\ UNCHANGED <<g_state, dma, tmr, cn, hist>>
          \/ /\ main.pc = "s_dma_reset"
             /\ dma' = DMA_reset(dma, i)
             /\ main' = [main EXCEPT !.pc = "s_dma_setup"]
             /\ UNCHANGED <<g_state, ic, tmr, cn, hist>>
          \/ /\ main.pc = "s_dma_setup"
             /\ dma' = DMA_setup(dma, i, a.events, Address(i, a.num_channels))
             /\ main' = [main EXCEPT !.pc = "s_addr"]
             /\ UNCHANGED <<g_state, ic, tmr, cn, hist>>
          \/ /\ main.pc = "s_addr"
             /\ g_state' = [g_state EXCEPT
                              !.initial_addresses[i] = Address(i, a.num_channels)]
             /\ main' = [main EXCEPT !.pc = "s_dma_ie"]
             /\ UNCHANGED <<ic, dma, tmr, cn, hist>>
          \/ /\ main.pc = "s_dma_ie"
             /\ dma' = DMA_interrupt_enable(dma, i)
             /\ main' = [main EXCEPT !.pc = "s_ic_setup"]
             /\ UNCHANGED <<g_state, ic, tmr, cn, hist>>
          \/ /\ main.pc = "s_ic_setup"
             /\ ic' = IC_setup(ic, i, timer2ictsel)
             /\ main' = [main EXCEPT !.pc = AfterSetupLoop(i, a.num_channels),
                                     !.i = i + 1]
             /\ UNCHANGED <<g_state, dma, tmr, cn, hist>>
    /\ BUFFER' = IF main.pc = "s_addr"
                 THEN BUFFER_set(BUFFER, Address(main.i, main.args.num_channels),
                                 0, main.args.events)
                 ELSE BUFFER
    /\ UNCHANGED <<isr, inp, oscvars>>

\* arm(): one step per assignment or peripheral call; the last call of the
\* armed paths is also the return of LA_capture.
Arm ==
    /\ MainRuns
    /\ LET a == main.args
       IN \/ /\ main.pc = "a_period"
             /\ tmr' = [tmr EXCEPT !.period = 1]
             /\ main' = [main EXCEPT !.pc = "a_tedge"]
             /\ UNCHANGED <<g_state, ic, dma, cn, hist>>
          \/ /\ main.pc = "a_tedge"
             /\ g_state' = [g_state EXCEPT !.trigger_edge = a.trigger_edge]
             /\ main' = IF ArmImmediate(a.trigger_pin, a.trigger_edge)
                        THEN [main EXCEPT !.pc = "trigger",
                                          !.t = TrigStart(CHANNEL_NONE)]
                        ELSE IF a.trigger_edge = EDGE_ANY
                             THEN [main EXCEPT !.pc = "a_cn_reset"]
                             ELSE [main EXCEPT !.pc = "a_ic_start"]
             /\ hist' = IF ArmImmediate(a.trigger_pin, a.trigger_edge)
                        THEN Fired(hist) ELSE hist
             /\ UNCHANGED <<ic, dma, tmr, cn>>
          \/ /\ main.pc = "a_cn_reset"
             /\ cn' = CN_DEFAULT
             /\ main' = [main EXCEPT !.pc = "a_cn_ie"]
             /\ UNCHANGED <<g_state, ic, dma, tmr, hist>>
          \/ /\ main.pc = "a_cn_ie"
             /\ cn' = [ie |-> TRUE, ch |-> a.trigger_pin]
             /\ main' = [Return("capture", TRUE, "SUCCESS", TRUE) EXCEPT !.args = a]
             /\ hist' = [hist EXCEPT !.armed = TRUE]
             /\ UNCHANGED <<g_state, ic, dma, tmr>>
          \/ /\ main.pc = "a_ic_start"
             /\ ic' = IC_start(ic, a.trigger_pin, a.trigger_edge)
             /\ main' = [main EXCEPT !.pc = "a_ic_ie"]
             /\ UNCHANGED <<g_state, dma, tmr, cn, hist>>
          \/ /\ main.pc = "a_ic_ie"
             /\ ic' = IC_interrupt_enable(ic, a.trigger_pin)
             /\ main' = [Return("capture", TRUE, "SUCCESS", TRUE) EXCEPT !.args = a]
             /\ hist' = [hist EXCEPT !.armed = TRUE]
             /\ UNCHANGED <<g_state, dma, tmr, cn>>
    /\ UNCHANGED <<isr, inp, BUFFER, oscvars>>

\* trigger(CHANNEL_NONE) called by arm(); its last step returns from
\* LA_capture.
MainTrigger ==
    /\ MainRuns
    /\ main.pc = "trigger"
    /\ TrigStep(main.t)
    /\ main' = IF main.t.pc = "t_disable"
               THEN [Return("capture", TRUE, "SUCCESS", TRUE) EXCEPT !.args = main.args]
               ELSE [main EXCEPT !.t = TrigNext(main.t)]
    /\ UNCHANGED <<isr, hist, inp, BUFFER, oscvars>>

\* Mutation: the early return of LA_stop is missing.
StopAlreadyIdle_Never == FALSE

\* if (!g_state.locked): the logic analyzer is already stopped.
StopAlreadyIdle == ~g_state.locked

\* LA_stop: the admission check, then one step per peripheral call or
\* assignment.
LA_stop ==
    /\ MainRuns
    /\ \/ /\ main.pc = "idle"
          /\ main' = IF StopAlreadyIdle
                     THEN Return("stop", FALSE, "SUCCESS", FALSE)
                     ELSE [MainIdle EXCEPT !.op = "stop", !.did = TRUE, !.pc = "st_cn"]
          /\ hist' = [hist EXCEPT
                        !.stopped = @ \/ g_state.locked,
                        !.done_at_stop = IF g_state.locked
                                         THEN hist.completed ELSE @]
          /\ UNCHANGED shared
       \/ /\ main.pc = "st_cn"
          /\ cn' = CN_DEFAULT
          /\ main' = [main EXCEPT !.pc = "st_tmr", !.touched = TRUE]
          /\ UNCHANGED <<g_state, ic, dma, tmr, hist>>
       \/ /\ main.pc = "st_tmr"
          /\ tmr' = TMR_DEFAULT
          /\ main' = [main EXCEPT !.pc = "st_ic", !.i = 0]
          /\ UNCHANGED <<g_state, ic, dma, cn, hist>>
       \/ /\ main.pc = "st_ic"
          /\ ic' = IC_reset(ic, main.i)
          /\ main' = [main EXCEPT !.pc = "st_prog"]
          /\ UNCHANGED <<g_state, dma, tmr, cn, hist>>
       \/ /\ main.pc = "st_prog"
          /\ g_state' = [g_state EXCEPT
                           !.final_progress[main.i] = DMA_get_progress(dma, main.i)]
          /\ main' = [main EXCEPT !.pc = "st_dma"]
          /\ UNCHANGED <<ic, dma, tmr, cn, hist>>
       \/ /\ main.pc = "st_dma"
          /\ dma' = DMA_reset(dma, main.i)
          /\ main' = [main EXCEPT !.i = main.i + 1,
                                  !.pc = IF main.i + 1 < CHANNEL_NUMEL
                                         THEN "st_ic" ELSE "st_unlock"]
          /\ UNCHANGED <<g_state, ic, tmr, cn, hist>>
       \/ /\ main.pc = "st_unlock"
          /\ g_state' = [g_state EXCEPT !.locked = FALSE]
          /\ main' = Return("stop", TRUE, "SUCCESS", TRUE)
          /\ UNCHANGED <<ic, dma, tmr, cn, hist>>
    /\ UNCHANGED <<isr, inp, BUFFER, oscvars>>

\* Mutation: the DMA channel is read whether the capture is complete or not.
ProgressOf_AlwaysLive(done, i) == DMA_get_progress(dma, i)

\* The progress LA_get_progress sends for channel i, given its local done.
ProgressOf(done, i) ==
    IF done THEN g_state.final_progress[i] ELSE DMA_get_progress(dma, i)

\* LA_get_progress: one step per read of the instrument state or of a DMA
\* channel.
LA_get_progress ==
    /\ MainRuns
    /\ \/ /\ main.pc = "idle"
          /\ main' = [MainIdle EXCEPT
                        !.op = "get_progress", !.did = TRUE, !.pc = "gp_done",
                        !.out = [NoOut EXCEPT !.channels = g_state.configured_channels]]
       \/ /\ main.pc = "gp_done"
          /\ LET o == [main.out EXCEPT !.done = ~g_state.locked]
             IN main' = IF o.channels = 0
                        THEN [Return("get_progress", TRUE, "SUCCESS", FALSE)
                                EXCEPT !.out = o]
                        ELSE [main EXCEPT !.pc = "gp_read", !.i = 0, !.out = o]
       \/ /\ main.pc = "gp_read"
          /\ LET o == [main.out EXCEPT
                         !.progress = Append(@, ProgressOf(main.out.done, main.i))]
             IN main' = IF main.i + 1 < o.channels
                        THEN [main EXCEPT !.i = main.i + 1, !.out = o,
                                          !.touched = TRUE]
                        ELSE [Return("get_progress", TRUE, "SUCCESS", TRUE)
                                EXCEPT !.out = o]
    /\ UNCHANGED <<shared, isr, hist, inp, BUFFER, oscvars>>

\* The 16-bit word at word offset a of the sample buffer.
Word(a) == IF a \in DOMAIN BUFFER THEN BUFFER[a] ELSE 0

\* timestamp - previous on uint16_t.
TimeDelta(timestamp, previous) == (timestamp - previous) % UINT16_MOD

\* Mutation: the delta is carried over instead of the raw timestamp.
NextPrevious_Delta(timestamp, timedelta) == timedelta

\* The value of previous for the next word.
NextPrevious(timestamp, timedelta) == timestamp

\* Position after channel i of LA_get_timestamps has been sent.
AfterChannel(m, o) ==
    IF m.i + 1 < o.channels
    THEN [m EXCEPT !.pc = "gt_events", !.i = m.i + 1, !.out = o]
    ELSE [Return("get_timestamps", TRUE, "SUCCESS", FALSE) EXCEPT !.out = o]

\* LA_get_timestamps: one step per read of the instrument state or of a
\* buffer word.  The base address is written by the main context only, so
\* it is read together with the word.
LA_get_timestamps ==
    /\ MainRuns
    /\ \/ /\ main.pc = "idle"
          /\ main' = [MainIdle EXCEPT
                        !.op = "get_timestamps", !.did = TRUE, !.pc = "gt_channels",
                        !.out = [NoOut EXCEPT !.states = g_state.initial_states]]
       \/ /\ main.pc = "gt_channels"
          /\ LET o == [main.out EXCEPT !.channels = g_state.configured_channels]
             IN main' = IF o.channels = 0
                        THEN [Return("get_timestamps", TRUE, "SUCCESS", FALSE)
                                EXCEPT !.out = o]
                        ELSE [main EXCEPT !.pc = "gt_events", !.i = 0, !.out = o]
       \/ /\ main.pc = "gt_events"
          /\ LET events == g_state.final_progress[main.i]
                 o == [main.out EXCEPT !.events = Append(@, events),
                                       !.deltas = Append(@, <<>>)]
             IN main' = IF events = 0
                        THEN AfterChannel(main, o)
                        ELSE [main EXCEPT !.pc = "gt_word", !.j = 0,
                                          !.previous = 0, !.out = o]
       \/ /\ main.pc = "gt_word"
          /\ LET address == g_state.initial_addresses[main.i]
                 timestamp == Word(address + main.j)
                 timedelta == TimeDelta(timestamp, main.previous)
                 o == [main.out EXCEPT
                         !.deltas[main.i + 1] = Append(@, timedelta)]
             IN main' = IF main.j + 1 < main.out.events[main.i + 1]
                        THEN [main EXCEPT
                                !.j = main.j + 1, !.out = o,
                                !.previous = NextPrevious(timestamp, timedelta)]
                        ELSE AfterChannel(main, o)
    /\ UNCHANGED <<shared, isr, hist, inp, BUFFER, oscvars>>

\* The dispatcher has sent the response and waits for the next command.
Dispatch ==
    /\ MainRuns
    /\ main.pc = "ret"
    /\ main' = MainIdle
    /\ UNCHANGED <<shared, isr, hist, inp, BUFFER, oscvars>>

(***************************************************************************)
(* Interrupt context                                                       *)
(***************************************************************************)
\* The trigger edge occurs on the pin of the armed IC channel.
IC_interrupt ==
    /\ ~isr.active
    /\ \E c \in Channels :
         /\ ic[c].ie
         /\ ic[c].mode # EDGE_NONE
         /\ isr' = [active |-> TRUE, t |-> TrigStart(c)]
    /\ hist' = Fired(hist)
    /\ UNCHANGED <<shared, main, inp, BUFFER, oscvars>>

\* The level of the pin armed for change notification changes.
CN_interrupt ==
    /\ ~isr.active
    /\ cn.ie
    /\ isr' = [active |-> TRUE, t |-> TrigStart(cn.ch)]
    /\ hist' = Fired(hist)
    /\ UNCHANGED <<shared, main, inp, BUFFER, oscvars>>

\* trigger(channel) running as interrupt callback.
IsrTrigger ==
    /\ isr.active
    /\ TrigStep(isr.t)
    /\ isr' = IF isr.t.pc = "t_disable"
              THEN IsrIdle
              ELSE [isr EXCEPT !.t = TrigNext(isr.t)]
    /\ UNCHANGED <<main, hist, inp, BUFFER, oscvars>>

\* --g_state.active_channels on a uint8_t.
Decrement(active_channels) == (active_channels - 1) % UINT8_MOD

\* Mutation: every completion callback releases the instrument.
LastChannel_Always(active_channels) == TRUE

\* if (!active_channels): this was the last active channel.
LastChannel(active_channels) == active_channels = 0

\* Mutation: the callback also clears the requested event count.
RecordFinal_ClearsEvents(g, c) ==
    [g EXCEPT !.final_progress[c] = g.events_per_channel,
              !.events_per_channel = 0]

\* g_state.final_progress[channel] = g_state.events_per_channel
RecordFinal(g, c) == [g EXCEPT !.final_progress[c] = g.events_per_channel]

\* cleanup_callback(c), called by the DMA interrupt of channel c.
cleanup_callback(c) ==
    LET active_channels == Decrement(g_state.active_channels)
    IN /\ g_state' = [RecordFinal(g_state, c) EXCEPT
                        !.active_channels = active_channels,
                        !.locked = IF LastChannel(active_channels) THEN FALSE ELSE @]
       /\ dma' = DMA_reset(dma, c)
       /\ ic' = IC_reset(ic, c)
       /\ tmr' = IF LastChannel(active_channels) THEN TMR_DEFAULT ELSE tmr
       /\ cn' = cn

DMA_interrupt(c) ==
    /\ ~isr.active
    /\ dma[c].ifg
    /\ dma[c].ie
    /\ cleanup_callback(c)
    /\ hist' = [hist EXCEPT !.completed = @ \cup {c}]
    /\ UNCHANGED <<main, isr, inp, BUFFER, oscvars>>

(***************************************************************************)
(* Oscilloscope (src/src/instruments/oscilloscope.c): setup() and arm() run *)
(* in the main context, each as one step; trigger() is the callback of the  *)
(* converter's sample-ready interrupt and runs to completion.               *)
(***************************************************************************)
Min(a, b) == IF a < b THEN a ELSE b
Max(a, b) == IF a > b THEN a ELSE b

\* Raw sample intervals in timer ticks, (uint32_t)(timegap * FCY).
OscDelays == {1, UINT16_MOD - 1, UINT16_MOD, 64 * UINT16_MOD, 512 * UINT16_MOD}

\* Arguments of setup(): one channel at every speed and interval, or
\* several channels sampled slowly.
OscSetups ==
    {a \in [num_channels : 1 .. MaxNum, samples : {1}, slow_sampling : BOOLEAN,
            delay : OscDelays, ch1_gain : {2}, ch2_gain : {1}] :
        a.num_channels = 1 \/ (a.slow_sampling /\ a.delay = UINT16_MOD - 1)}

\* Arguments of arm(); ratio2 is twice (trigger_voltage - offset) / range.
OscArms ==
    [trigger_channel : {0, CHANNEL_NUMEL - 1}, ratio2 : {-1, 1, 3},
     trigger_dir : {EDGE_ANY, EDGE_FALLING, EDGE_RISING},
     trigger_timeout : 0 .. MaxTimeout]

\* while (delay > UINT16_MAX) { ++prescaler; delay /= 8; }
RECURSIVE Escalate(_, _)
Escalate(prescaler, delay) ==
    IF delay > UINT16_MOD - 1
    THEN Escalate(prescaler + 1, delay \div 8)
    ELSE [prescaler |-> prescaler, delay |-> delay]

\* The DMA channels after the loop of setup() over i < num_channels.
RECURSIVE OscDmaSetup(_, _, _, _)
OscDmaSetup(p, i, num_channels, samples) ==
    IF i >= num_channels
    THEN p
    ELSE OscDmaSetup(DMA_setup(DMA_reset(p, i), i, samples,
                               (i * BUFFER_SIZE) \div num_channels),
                     i + 1, num_channels, samples)

\* setup(): neither num_channels nor the resolution is stored in the
\* oscilloscope state.
OscSetup(a) ==
    LET use_12bit == a.slow_sampling /\ a.num_channels = 1
        t == Escalate(0, a.delay)
    IN /\ osc_state' = [osc_state EXCEPT
                          !.gains = [c \in Channels |->
                                       IF c = 0 THEN a.ch1_gain
                                       ELSE IF c = 1 THEN a.ch2_gain ELSE 1]]
       /\ adc' = [ADC_DEFAULT EXCEPT
                    !.on = TRUE, !.channels = a.num_channels,
                    !.bits = IF use_12bit THEN 12 ELSE 10, !.buf = adc.buf]
       /\ tmr' = [TMR_DEFAULT EXCEPT
                    !.prescaler = t.prescaler, !.period = t.delay % UINT16_MOD]
       /\ dma' = OscDmaSetup(dma, 0, a.num_channels, a.samples)
       /\ ohist' = OHistInit
       /\ UNCHANGED <<g_state, ic, cn, main, isr, hist, inp, BUFFER,
                      g_trigger_state, oinp>>

\* (int16_t)((trigger_voltage - offset) / range * resolution): the float is
\* truncated towards zero.
Quantize(ratio2, resolution) ==
    IF ratio2 >= 0
    THEN (ratio2 * resolution) \div 2
    ELSE -(((-ratio2) * resolution) \div 2)

\* clamp(): max(lo, min(hi, v)).
clamp(v, lo, hi) == Max(lo, Min(hi, v))

\* (uint16_t)clamp(level, 1, resolution - 1); resolution - 1 is computed on
\* the 16-bit unsigned int of the target.
ClampedLevel(level, resolution) ==
    clamp(level, 1, (resolution - 1) % UINT16_MOD) % UINT16_MOD

\* Mutation: the polarity is the side the pre-arm sample is on.
AnyPolarity_Same(sample, level) == sample >= level

\* EDGE_ANY: the polarity opposite to the side of the current sample.
AnyPolarity(sample, level) == sample < level

\* 'trigger == EDGE_RISING': trigger names the function trigger(), and no
\* function is at address EDGE_RISING.
DirectedPolarity(trigger_dir) == FALSE

\* arm()
OscArm(a) ==
    LET resolution == osc_state.resolution
        level == ClampedLevel(Quantize(a.ratio2, resolution), resolution)
        sample == adc.buf[a.trigger_channel]
        any == a.trigger_dir = EDGE_ANY
    IN /\ adc.on
       /\ g_trigger_state' =
            [channel |-> a.trigger_channel,
             level |-> level,
             waiting |-> 0,
             timeout |-> a.trigger_timeout,
             ready |-> any,
             polarity |-> IF any THEN AnyPolarity(sample, level)
                          ELSE DirectedPolarity(a.trigger_dir)]
       /\ adc' = [adc EXCEPT !.ie = TRUE]
       /\ ohist' = [OHistInit EXCEPT
                      !.armed = TRUE, !.dir = a.trigger_dir,
                      !.prearm = sample >= level]
       /\ UNCHANGED <<g_state, ic, dma, tmr, cn, main, isr, hist, inp, BUFFER,
                      osc_state, oinp>>

\* The fall-through switch of trigger() over num_channels.
OscDmaStart(p, num_channels) ==
    [c \in Channels |->
        IF num_channels \in 1 .. CHANNEL_NUMEL /\ c < num_channels
        THEN [p[c] EXCEPT !.en = TRUE] ELSE p[c]]

\* trigger(): whether the evaluation of sample declares the trigger.  ts is
\* the local copy of g_trigger_state; it is not written back.
Triggered(ts, sample) ==
    LET waiting == (ts.waiting + 1) % UINT16_MOD
        sample_polarity == sample >= ts.level
        polarity_equal == ts.polarity = sample_polarity
        ready == ts.ready \/ ~polarity_equal
    IN (waiting > ts.timeout) \/ (ready /\ polarity_equal)

\* The converter finishes a conversion of value v on the trigger channel;
\* the buffers of the other channels are not followed.  With the interrupt
\* enabled, trigger() evaluates the sample.
OscSample(v) ==
    LET ts == g_trigger_state
        evaluated == adc.ie
        triggered == evaluated /\ Triggered(ts, v)
        sides == Append(ohist.sides, v >= ts.level)
    IN /\ adc.on
       /\ evaluated => Len(ohist.sides) < MaxEvals
       /\ adc' = [adc EXCEPT !.buf[ts.channel] = v,
                             !.ie = IF triggered THEN FALSE ELSE @]
       /\ dma' = IF triggered THEN OscDmaStart(dma, osc_state.num_channels) ELSE dma
       /\ ohist' = IF evaluated
                   THEN [ohist EXCEPT
                           !.sides = sides,
                           !.fired_at = IF triggered THEN Len(sides) ELSE @]
                   ELSE ohist
       /\ UNCHANGED <<g_state, ic, tmr, cn, main, isr, hist, inp, BUFFER,
                      osc_state, g_trigger_state, oinp>>

(***************************************************************************)
(* Environment                                                             *)
(***************************************************************************)
\* DMA channel c after it has moved one more captured timestamp: when the
\* requested count is reached the channel disables itself and raises its
\* interrupt flag.
DMA_transfer(d) ==
    IF d.cnt + 1 = d.count
    THEN [d EXCEPT !.cnt = d.cnt + 1, !.en = FALSE, !.ifg = TRUE]
    ELSE [d EXCEPT !.cnt = d.cnt + 1]

\* An edge of the type IC channel c captures occurs on its pin; the running
\* DMA channel moves the timestamp to the sample buffer.
Edge(c) ==
    /\ ic[c].mode # EDGE_NONE
    /\ dma[c].en
    /\ dma[c].cnt < dma[c].count
    /\ dma' = Upd(dma, c, DMA_transfer(dma[c]))
    /\ UNCHANGED <<g_state, ic, tmr, cn, main, isr, hist, inp, BUFFER, oscvars>>

(***************************************************************************)
(* Specifications                                                          *)
(***************************************************************************)
Capture == \E r \in inp : LA_capture(r)
Cleanup == \E c \in Channels : DMA_interrupt(c)
PinEdge == \E c \in Channels : Edge(c)

Next ==
    \/ Capture
    \/ Setup
    \/ Arm
    \/ MainTrigger
    \/ LA_stop
    \/ LA_get_progress
    \/ LA_get_timestamps
    \/ Dispatch
    \/ IC_interrupt
    \/ CN_interrupt
    \/ IsrTrigger
    \/ Cleanup
    \/ PinEdge

Spec == Init /\ [][Next]_vars

\* The argument-validation model leaves the capture pins quiet.
NextArgs ==
    \/ Capture
    \/ Setup
    \/ Arm
    \/ MainTrigger
    \/ LA_stop
    \/ LA_get_progress
    \/ LA_get_timestamps
    \/ Dispatch
    \/ IC_interrupt
    \/ CN_interrupt
    \/ IsrTrigger

SpecArgs == InitArgs /\ [][NextArgs]_vars

\* The timestamp model: the instrument is idle and only read out.
NextTs ==
    \/ LA_get_timestamps
    \/ Dispatch

SpecTs == InitTs /\ [][NextTs]_vars

\* The buffer model: requests and stop(), with the capture pins quiet.
NextBuf ==
    \/ Capture
    \/ Setup
    \/ Arm
    \/ MainTrigger
    \/ LA_stop
    \/ Dispatch

SpecBuf == InitBuf /\ [][NextBuf]_vars

OscCapture == \E a \in oinp.setup : OscSetup(a)
OscTrigger == \E a \in oinp.arm : OscArm(a)
OscConvert == \E v \in 0 .. MaxSample : OscSample(v)

\* The host repeats one setup() and one arm().
InitOsc ==
    /\ g_state = g_STATE_DEFAULT
    /\ ic = [c \in Channels |-> IC_DEFAULT]
    /\ dma = [c \in Channels |-> DMA_DEFAULT]
    /\ tmr = TMR_DEFAULT
    /\ cn = CN_DEFAULT
    /\ main = MainIdle
    /\ isr = IsrIdle
    /\ hist = HistInit
    /\ BUFFER = BufferClear
    /\ inp = {}
    /\ OscIdle
    /\ \E a \in OscSetups, b \in OscArms : oinp = [setup |-> {a}, arm |-> {b}]

\* The oscilloscope model.
NextOsc ==
    \/ OscCapture
    \/ OscTrigger
    \/ OscConvert

SpecOsc == InitOsc /\ [][NextOsc]_vars

(***************************************************************************)
(* Properties                                                              *)
(***************************************************************************)
\* The step is a call of LA_capture from the dispatcher.
CaptureCalled == main.pc = "idle" /\ main'.pc # "idle" /\ main'.op = "capture"

\* The step is the return of an accepted LA_capture.
CaptureReturns ==
    main.pc # "ret" /\ main'.pc = "ret" /\ main'.op = "capture" /\ main'.did

\* No resource of the instrument is held.
Released ==
    /\ ~tmr.on
    /\ ~cn.ie
    /\ \A c \in Channels : ic[c].mode = EDGE_NONE /\ ~ic[c].ie /\ ~dma[c].en

\* The channels of the current session.
Configured == 0 .. (g_state.configured_channels - 1)

\* C1: a capture request made while the instrument is locked is answered
\* with the busy response (FAILED) and changes neither the instrument state
\* nor any peripheral, and calls no peripheral capability.
C1_BusyHasNoSideEffects ==
    [][(CaptureCalled /\ g_state.locked) =>
          /\ main'.pc = "ret"
          /\ main'.result = "FAILED"
          /\ ~main'.touched
          /\ UNCHANGED shared]_vars

C1_Witness ==
    /\ main.pc = "ret" /\ main.op = "capture" /\ main.result = "FAILED"
    /\ g_state.locked
    /\ g_state.active_channels > 0

\* C2: active_channels stays within 0 .. configured_channels in every
\* reachable state, interrupts preempting the main context at any step.
C2_ActiveInRange ==
    g_state.active_channels \in 0 .. g_state.configured_channels

\* C3: the fire sequence keeps its order: a DMA mover is started only once
\* the shared clock runs, the clock is started only once the edge detector
\* of every configured channel runs, and the pin states are latched only
\* once every configured DMA mover has been started.
C3_FireOrder ==
    [][/\ \A c \in Channels : (dma'[c].en /\ ~dma[c].en) => tmr.on
       /\ (tmr'.on /\ ~tmr.on) => \A c \in Configured : ic[c].mode # EDGE_NONE
       /\ (g_state'.initial_states # g_state.initial_states) =>
             \A c \in Configured : dma[c].en \/ dma[c].ifg \/ c \in hist.completed
      ]_vars

\* C4: once the completion callback of every configured channel has run,
\* the instrument is unlocked, no channel is active, the clock is released
\* and the progress reported for a finished capture is the requested count.
C4_AllCompletedUnlocks ==
    (g_state.configured_channels >= 1 /\ hist.completed = Configured) =>
        /\ ~g_state.locked
        /\ g_state.active_channels = 0
        /\ ~tmr.on
        /\ \A c \in Configured :
             g_state.final_progress[c] = g_state.events_per_channel

\* C5: after LA_stop has returned from a capture in flight, the instrument
\* is unlocked and active_channels is 0.
C5_StopResetsActive ==
    (main.pc = "ret" /\ main.op = "stop" /\ main.did) =>
        ~g_state.locked /\ g_state.active_channels = 0

\* C6: after LA_stop has returned from a session, no resource is held: the
\* clock is stopped, no edge detector runs, no DMA mover is enabled and no
\* trigger interrupt is enabled.
C6_StopReleasesAll ==
    (main.pc = "ret" /\ main.op = "stop" /\ main.did) => Released

\* The invalid requests C7 names.
NamedInvalid(r) ==
    r.num_channels = 0 \/ r.num_channels > CHANNEL_NUMEL \/ r.edge = EDGE_NONE

\* C7: on an idle instrument, a request with num_channels 0 or above 4, or
\* with the null capture edge, is answered with ARGUMENT_ERROR, leaves the
\* instrument state (unlocked) and the peripherals as they were and calls no
\* peripheral capability.
C7_InvalidRejected ==
    [][(CaptureCalled /\ ~g_state.locked /\ \A r \in inp : NamedInvalid(r)) =>
          /\ main'.pc = "ret"
          /\ main'.result = "ARGUMENT_ERROR"
          /\ ~main'.touched
          /\ ~g_state'.locked
          /\ UNCHANGED shared]_vars

C7_Witness ==
    /\ main.pc = "ret" /\ main.op = "capture" /\ main.result = "ARGUMENT_ERROR"
    /\ \E r \in inp : r.edge = EDGE_NONE /\ r.num_channels \in 1 .. CHANNEL_NUMEL
    /\ g_state = g_STATE_DEFAULT

\* The request asks for more timestamps than the sample buffer holds.
TooLarge(r) ==
    r.num_channels \in 1 .. CHANNEL_NUMEL /\ r.events * r.num_channels > BUFFER_SIZE

\* C8: a request whose events * num_channels exceeds the buffer capacity is
\* never accepted.
C8_TooLargeNeverAccepted ==
    (\A r \in inp : TooLarge(r)) => ~(main.op = "capture" /\ main.did)

\* The requests C9 names.
Valid(r) ==
    /\ r.num_channels \in 1 .. CHANNEL_NUMEL
    /\ r.events * r.num_channels <= BUFFER_SIZE
    /\ r.edge # EDGE_NONE

\* C9: on an idle instrument every valid request is accepted and returns
\* SUCCESS with configured_channels = num_channels, and with the instrument
\* locked when a trigger channel and a trigger edge are given.
C9_ValidAccepted ==
    [][/\ (CaptureCalled /\ ~g_state.locked /\ \A r \in inp : Valid(r)) =>
             main'.did
       /\ CaptureReturns =>
             /\ main'.result = "SUCCESS"
             /\ g_state'.configured_channels = main'.args.num_channels
             /\ ~ArmImmediate(main'.args.trigger_pin, main'.args.trigger_edge)
                   => g_state'.locked
      ]_vars

C9_Witness ==
    /\ main.pc = "ret" /\ main.op = "capture" /\ main.result = "SUCCESS"
    /\ main.args.num_channels = CHANNEL_NUMEL
    /\ main.args.events * main.args.num_channels = BUFFER_SIZE
    /\ ~ArmImmediate(main.args.trigger_pin, main.args.trigger_edge)
    /\ g_state.locked

\* No step of the program or of the environment is pending.
Quiescent ==
    /\ main.pc = "idle"
    /\ ~isr.active
    /\ \A c \in Channels :
         /\ ~(ic[c].mode # EDGE_NONE /\ dma[c].en /\ dma[c].cnt < dma[c].count)
         /\ ~(dma[c].ifg /\ dma[c].ie)

\* C10: a session started by an immediate trigger and not stopped ends with
\* every configured channel at final_progress = events and the instrument
\* unlocked: when every channel has received its edges and every completion
\* interrupt has been served, nothing is left to wait for.
C10_ImmediateCaptureCompletes ==
    (Quiescent /\ g_state.configured_channels >= 1
        /\ hist.immediate /\ ~hist.stopped) =>
        /\ ~g_state.locked
        /\ \A c \in Configured :
             g_state.final_progress[c] = g_state.events_per_channel

\* The step is the completion callback of channel c.
CallbackRuns(c) ==
    /\ ~isr.active /\ dma[c].ifg /\ dma[c].ie
    /\ main' = main /\ isr' = isr
    /\ dma'[c] = DMA_DEFAULT
    /\ g_state'.active_channels = Decrement(g_state.active_channels)

\* The step is the last assignment of LA_stop.
StopUnlocks == main.pc = "st_unlock" /\ main'.pc = "ret" /\ main'.op = "stop"

\* C11: locked goes from true to false only in a completion callback that
\* has just decremented active_channels to 0, which also releases the shared
\* clock, or in LA_stop; no other step clears it.
C11_UnlockPaths ==
    [][(g_state.locked /\ ~g_state'.locked) =>
          \/ StopUnlocks
          \/ \E c \in Channels :
               /\ CallbackRuns(c)
               /\ g_state'.active_channels = 0
               /\ tmr' = TMR_DEFAULT]_vars

C11_Witness ==
    /\ ~g_state.locked
    /\ ~hist.stopped
    /\ g_state.configured_channels = 2
    /\ hist.completed = Configured
    /\ g_state.active_channels = 0

\* The request names no trigger.
NoTrigger(a) == a.trigger_pin = CHANNEL_NONE \/ a.trigger_edge = EDGE_NONE

\* C12: when an accepted LA_capture returns, the trigger source has been
\* selected by the edge type: without a trigger the fire sequence has run
\* inside the call; with a rising or falling trigger edge the edge detector
\* of the trigger channel runs with that edge and its interrupt is enabled,
\* and change notification is not; with the trigger edge ANY change
\* notification is enabled on the trigger channel and no edge-detector
\* interrupt is.
C12_ArmSelectsSource ==
    [][CaptureReturns =>
          LET a == main'.args
          IN /\ NoTrigger(a) => main.pc = "trigger" /\ main.t.pc = "t_disable"
             /\ (~NoTrigger(a) /\ a.trigger_edge \in {EDGE_RISING, EDGE_FALLING}) =>
                   /\ main.pc = "a_ic_ie"
                   /\ ic'[a.trigger_pin].mode = a.trigger_edge
                   /\ ic'[a.trigger_pin].ie
                   /\ ~cn'.ie
             /\ (~NoTrigger(a) /\ a.trigger_edge = EDGE_ANY) =>
                   /\ main.pc = "a_cn_ie"
                   /\ cn'.ie /\ cn'.ch = a.trigger_pin
                   /\ \A c \in Channels : ~ic'[c].ie]_vars

C12_Witness ==
    /\ main.pc = "ret" /\ main.op = "capture" /\ main.did
    /\ main.args.trigger_edge = EDGE_FALLING
    /\ main.args.trigger_pin = CHANNEL_NUMEL - 1
    /\ ic[CHANNEL_NUMEL - 1].mode = EDGE_FALLING
    /\ ic[CHANNEL_NUMEL - 1].ie
    /\ ~cn.ie

\* No invocation of the fire sequence is in progress.
NotFiring == main.pc # "trigger" /\ ~isr.active

\* C13: the trigger is single-shot: the fire sequence runs at most once in a
\* session, and once it has run neither the edge-detector interrupt of any
\* channel nor change notification is enabled.
C13_SingleShot ==
    /\ hist.fires <= 1
    /\ (hist.fires >= 1 /\ NotFiring) =>
          /\ ~cn.ie
          /\ \A c \in Channels : ~ic[c].ie

C13_Witness ==
    /\ hist.fires = 1 /\ NotFiring /\ main.pc = "idle"
    /\ ~hist.immediate
    /\ g_state.trigger_edge = EDGE_RISING
    /\ g_state.locked
    /\ g_state.active_channels > 0
    /\ ic[CHANNEL_NUMEL - 1].mode = EDGE_RISING
    /\ ~ic[CHANNEL_NUMEL - 1].ie

\* The session has been armed with a trigger that has not occurred, and
\* LA_stop has not been called.
ArmedWaiting == hist.armed /\ hist.fires = 0 /\ ~hist.stopped

StopCalled == main.pc = "idle" /\ main'.pc # "idle" /\ main'.op = "stop"

\* C15: LA_stop on an unlocked instrument returns SUCCESS, changes no field
\* of the instrument state and calls no peripheral capability, so a second
\* LA_stop leaves the state the first one left.
C15_StopIdempotent ==
    [][(StopCalled /\ ~g_state.locked) =>
          /\ main'.pc = "ret"
          /\ main'.result = "SUCCESS"
          /\ ~main'.touched
          /\ UNCHANGED shared]_vars

C15_Witness ==
    /\ main.pc = "ret" /\ main.op = "stop" /\ ~main.did
    /\ main.result = "SUCCESS"
    /\ hist.stopped
    /\ ~g_state.locked
    /\ \E c \in Channels : g_state.final_progress[c] > 0

\* The step is a step of LA_get_progress.
ProgressStep == main'.op = "get_progress" /\ main' # main

\* C16: LA_get_progress sends the configured channel count, then done as
\* the negation of locked, then for each configured channel in order the
\* progress of its DMA channel when done is false and final_progress when
\* done is true; none of its steps changes the instrument state or a
\* peripheral.
C16_ProgressReport ==
    [][ProgressStep =>
          /\ UNCHANGED shared
          /\ main.pc = "idle" =>
                main'.out.channels = g_state.configured_channels
          /\ main.pc = "gp_done" =>
                /\ main'.out.done = ~g_state.locked
                /\ main'.out.channels = main.out.channels
          /\ main.pc = "gp_read" =>
                /\ Len(main.out.progress) = main.i
                /\ main'.out.progress =
                     Append(main.out.progress,
                            IF main.out.done
                            THEN g_state.final_progress[main.i]
                            ELSE dma[main.i].cnt)
                /\ main'.out.done = main.out.done
                /\ main'.out.channels = main.out.channels
          /\ main'.pc = "ret" =>
                Len(main'.out.progress) = main'.out.channels]_vars

C16_Witness ==
    /\ main.pc = "ret" /\ main.op = "get_progress"
    /\ main.out.channels = 1
    /\ ~main.out.done
    /\ main.out.progress = <<1>>
    /\ g_state.events_per_channel = 2

\* The j-th raw clock value captured on channel c, counted from 1; the
\* value before the first is 0.
Raw(c, j) == IF j = 0 THEN 0 ELSE Word(g_state.initial_addresses[c] + j - 1)

\* The sum of the first j elements of d, modulo 2^16.
RECURSIVE RunningSum(_, _)
RunningSum(d, j) == IF j = 0 THEN 0 ELSE (RunningSum(d, j - 1) + d[j]) % UINT16_MOD

\* C17: LA_get_timestamps sends for each configured channel as many deltas
\* as final_progress says, the j-th being the j-th raw 16-bit clock value
\* minus the raw value before it (0 before the first) modulo 2^16, so that
\* the running sum of the deltas modulo 2^16 gives each raw value back; raw
\* values 100, 150, 400 are sent as 100, 50, 250.
C17_TimestampDeltas ==
    (main.pc = "ret" /\ main.op = "get_timestamps") =>
        /\ main.out.channels = g_state.configured_channels
        /\ Len(main.out.deltas) = main.out.channels
        /\ Len(main.out.events) = main.out.channels
        /\ \A c \in 0 .. (main.out.channels - 1) :
             LET d == main.out.deltas[c + 1]
             IN /\ Len(d) = g_state.final_progress[c]
                /\ main.out.events[c + 1] = Len(d)
                /\ \A j \in 1 .. Len(d) :
                     /\ d[j] \in 0 .. (UINT16_MOD - 1)
                     /\ d[j] = (Raw(c, j) - Raw(c, j - 1)) % UINT16_MOD
                     /\ RunningSum(d, j) = Raw(c, j)

C17_Witness ==
    /\ main.pc = "ret" /\ main.op = "get_timestamps"
    /\ main.out.channels = 2
    /\ <<Raw(0, 1), Raw(0, 2), Raw(0, 3)>> = <<100, 150, 400>>
    /\ main.out.deltas[1] = <<100, 50, 250>>
    /\ <<Raw(1, 1), Raw(1, 2), Raw(1, 3)>> = <<400, 150, 100>>
    /\ main.out.deltas[2] = <<400, 65286, 65486>>

\* The number of trigger evaluations since arm().
Evaluations == Len(ohist.sides)

\* The trigger has been declared.
Declared == ohist.fired_at # 0

\* C18: after arm() with timeout T the waiting counter counts every sample
\* evaluation since arming, and the trigger is declared no later than at
\* the (T+1)-th evaluation, whatever the samples are.
C18_TimeoutDeclares ==
    ohist.armed =>
        /\ ~Declared => g_trigger_state.waiting = Evaluations
        /\ Evaluations > g_trigger_state.timeout =>
              ohist.fired_at \in 1 .. (g_trigger_state.timeout + 1)

\* The side of the level a directed trigger fires on: at or above it for a
\* rising edge, below it for a falling one.
PolaritySide == ohist.dir = EDGE_RISING

\* Evaluation k saw the sample on the polarity side after an earlier
\* evaluation saw it on the opposite side.
Crossed(k) ==
    /\ ohist.sides[k] = PolaritySide
    /\ \E j \in 1 .. (k - 1) : ohist.sides[j] # PolaritySide

\* C19: a trigger armed with a rising or falling edge is declared at the
\* first evaluation that sees the sample on the polarity side after an
\* earlier one saw it on the opposite side, and, the timeout aside, at no
\* other evaluation.
C19_DirectedEdge ==
    (/\ ohist.armed
     /\ ohist.dir \in {EDGE_RISING, EDGE_FALLING}
     /\ Evaluations <= g_trigger_state.timeout) =>
        LET K == {k \in 1 .. Evaluations : Crossed(k)}
        IN IF K = {}
           THEN ~Declared
           ELSE ohist.fired_at = CHOOSE k \in K : \A m \in K : k <= m

\* C20: a trigger armed with the edge ANY while the sample is below the
\* level is declared at the first evaluation that sees a sample at or above
\* the level, and at no evaluation that still sees it below before the
\* timeout is exceeded.
C20_AnyEdge ==
    (ohist.armed /\ ohist.dir = EDGE_ANY /\ ~ohist.prearm) =>
        LET K == {k \in 1 .. Evaluations : ohist.sides[k]}
        IN /\ K # {} => ohist.fired_at = CHOOSE k \in K : \A m \in K : k <= m
           /\ (K = {} /\ Evaluations <= g_trigger_state.timeout) => ~Declared

C20_Witness ==
    /\ ohist.armed /\ ohist.dir = EDGE_ANY /\ ~ohist.prearm
    /\ g_trigger_state.timeout = 2
    /\ ohist.sides = <<FALSE, TRUE>>
    /\ ohist.fired_at = 2
    /\ ~adc.ie

\* The effective resolution selected by setup(): 1 << 12 or 1 << 10.
EffectiveResolution == IF adc.bits = 12 THEN 4096 ELSE 1024

\* C21: when a trigger evaluation declares the trigger after
\* setup(num_channels = n) and arm(), the DMA channel of each of the n
\* configured channels, and of no other, is started and the converter's
\* interrupt is disabled.
C21_TriggerStartsChannels ==
    Declared =>
        /\ \A c \in Channels : dma[c].en <=> c < adc.channels
        /\ ~adc.ie

\* C22: after setup() and arm() the stored trigger level lies in
\* 1 .. resolution - 1 for the effective resolution; a voltage that
\* quantizes to 0 or below is stored as 1 and one that quantizes to the
\* resolution or above as resolution - 1.
C22_LevelClamped ==
    ohist.armed =>
        \A b \in oinp.arm :
            LET resolution == EffectiveResolution
                level == Quantize(b.ratio2, resolution)
            IN /\ g_trigger_state.level \in 1 .. (resolution - 1)
               /\ level <= 0 => g_trigger_state.level = 1
               /\ level >= resolution =>
                      g_trigger_state.level = resolution - 1

\* C23: right after arm() with a directed edge the polarity is true for
\* RISING and false for FALLING and ready is false; with the edge ANY the
\* polarity is the opposite of the pre-arm sample's side and ready is true.
C23_ArmPolarity ==
    (ohist.armed /\ Evaluations = 0) =>
        IF ohist.dir = EDGE_ANY
        THEN /\ g_trigger_state.polarity = ~ohist.prearm
             /\ g_trigger_state.ready
        ELSE /\ g_trigger_state.polarity = (ohist.dir = EDGE_RISING)
             /\ ~g_trigger_state.ready

\* The division factor of prescaler step p: x1, x8, x64, x256.
PrescalerFactor(p) == <<1, 8, 64, 256>>[p + 1]

\* C24: for every raw tick count d setup() programs one of the four
\* prescaler steps, the smallest for which d divided by its factor fits in
\* 16 bits, and that quotient as the period.
C24_PrescalerEscalation ==
    adc.on =>
        \A a \in oinp.setup :
            /\ tmr.prescaler \in 0 .. 3
            /\ tmr.period = a.delay \div PrescalerFactor(tmr.prescaler)
            /\ tmr.period <= UINT16_MOD - 1
            /\ \A q \in 0 .. (tmr.prescaler - 1) :
                  a.delay \div PrescalerFactor(q) > UINT16_MOD - 1

\* C25: when stop() is called after the completion callback of channel i
\* has run, final_progress[i] still equals the requested events per channel
\* after stop() returns.
C25_StopKeepsFinalProgress ==
    (main.pc = "ret" /\ main.op = "stop" /\ main.did) =>
        \A c \in hist.done_at_stop :
            g_state.final_progress[c] = g_state.events_per_channel

\* C26: whenever the instrument is unlocked and neither a request nor a
\* callback is executing, no edge detector is running (the trigger
\* channel's included), no DMA channel is enabled, the shared clock is
\* stopped and no trigger interrupt is enabled.
C26_UnlockedHoldsNothing ==
    (~g_state.locked /\ main.pc = "idle" /\ ~isr.active) => Released

\* C27: after a successful capture request and before any edge is
\* captured, each of the events words from the base address of every
\* configured channel on is 0, whatever the buffer held before.
C27_SetupClearsRegions ==
    (/\ main.pc = "ret" /\ main.op = "capture" /\ main.result = "SUCCESS"
     /\ \A c \in Channels : dma[c].cnt = 0) =>
        \A c \in 0 .. (g_state.configured_channels - 1) :
            \A j \in 0 .. (g_state.events_per_channel - 1) :
                Word(g_state.initial_addresses[c] + j) = 0

\* A capture request has just returned success.
CaptureAccepted ==
    main.pc = "ret" /\ main.op = "capture" /\ main.result = "SUCCESS"

\* C28: for every accepted capture request the sub-regions
\* [base_i, base_i + events) of distinct configured channels are disjoint
\* and lie inside the sample buffer.
C28_RegionsDisjoint ==
    CaptureAccepted =>
        LET n == main.args.num_channels
            events == main.args.events
            base(i) == (i * BUFFER_SIZE) \div n
        IN /\ \A i \in 0 .. (n - 1) :
                /\ g_state.initial_addresses[i] = base(i)
                /\ base(i) + events <= BUFFER_SIZE
           /\ \A i, k \in 0 .. (n - 1) :
                i < k => base(i) + events <= base(k)

\* The channel that keys the capability call the step of trigger() at t
\* is about to make; 0 where the step makes no keyed call.
TriggerKey(t) ==
    IF t.pc \in {"t_ic", "t_dma"} THEN t.k - 1
    ELSE IF /\ t.pc = "t_disable"
            /\ g_state.trigger_edge \in {EDGE_RISING, EDGE_FALLING}
         THEN t.channel
         ELSE 0

\* C29: every edge-detector, DMA and trigger-interrupt call of capture, the
\* fire sequence and stop is keyed by a channel in 0 .. 3, also for an
\* immediate trigger combined with a directional trigger edge.
C29_ChannelKeysInRange ==
    /\ main.pc \in {"s_ic_reset", "s_dma_reset", "s_dma_setup", "s_dma_ie",
                    "s_ic_setup"} => main.i \in Channels
    /\ main.pc \in {"a_cn_ie", "a_ic_start", "a_ic_ie"} =>
          main.args.trigger_pin \in Channels
    /\ main.pc = "trigger" => TriggerKey(main.t) \in Channels
    /\ isr.active => TriggerKey(isr.t) \in Channels

\* An accepted capture request is executing setup(), arm() or the
\* immediate trigger.
CaptureRunning == main.op = "capture" /\ main.pc \notin {"idle", "ret"}

\* The session configuration.
SessionConfig ==
    <<g_state.configured_channels, g_state.capture_edge, g_state.trigger_edge,
      g_state.events_per_channel, g_state.initial_addresses>>

\* C30: from the return of an accepted capture request until the
\* instrument is unlocked no step changes the session configuration:
\* not a completion callback, the fire sequence, get_progress,
\* get_timestamps, stop or a rejected capture request.
C30_ConfigFixed ==
    [][(g_state.locked /\ ~CaptureRunning) => SessionConfig' = SessionConfig]_vars

\* A callback has completed a channel of a locked two-channel session and
\* get_progress has run; the configuration is the requested one.
C30_Witness ==
    /\ g_state.locked /\ ~CaptureRunning
    /\ hist.completed # {}
    /\ main.pc = "ret" /\ main.op = "get_progress"
    /\ g_state.configured_channels = 2
    /\ g_state.events_per_channel = 1
    /\ g_state.initial_addresses[1] = BUFFER_SIZE \div 2

\* The number of events captured on channel c in the running session: the
\* requested count once its completion callback has run, and the progress
\* of its DMA channel before.
CapturedNow(c) ==
    IF c \in hist.completed
    THEN g_state.events_per_channel
    ELSE DMA_get_progress(dma, c)

\* C31: the event count LA_get_timestamps reads for a channel while a
\* session is armed or capturing does not exceed the number of events
\* captured on that channel in this session; no count of an earlier
\* session is reported.
C31_NoStaleProgress ==
    (main.pc = "gt_events" /\ g_state.locked) =>
        g_state.final_progress[main.i] <= CapturedNow(main.i)

TypeOK ==
    /\ g_state.active_channels \in 0 .. (UINT8_MOD - 1)
    /\ g_state.configured_channels \in 0 .. CHANNEL_NUMEL

====
